---- MODULE Spec2Model ----
(***************************************************************************)
(* Reflections: a daily journal (FastAPI + SQLAlchemy).  The model keeps   *)
(* the two tables of app/models.py, the per-request session of             *)
(* app/database.py and one process per in-flight request, stepping at the  *)
(* awaits of the handlers in app/routers and app/auth.py.                  *)
(*                                                                         *)
(* Storage is the engine the code configures by default (config.py:15,     *)
(* database.py:8-11: SQLite through aiosqlite, no PRAGMA set):             *)
(*   - a SELECT outside a write transaction reads the committed tables;    *)
(*   - the first INSERT/UPDATE/DELETE of a session takes the single write  *)
(*     lock, held until that session commits or rolls back; another        *)
(*     session's write waits for it;                                       *)
(*   - INTEGER PRIMARY KEY without the AUTOINCREMENT keyword: a new row    *)
(*     gets the largest id of the table plus one;                          *)
(*   - foreign keys are declared but not enforced; UNIQUE is enforced.     *)
(***************************************************************************)
EXTENDS Integers, Sequences, FiniteSets, TLC

(* ------------------------------ bounds --------------------------------- *)
NumProcs == 2
MaxUserId == 2
MaxEntryId == 2
NumDates == 2
MaxClock == 2
TicksPerSecond == 2

(* ------------------------- program constants --------------------------- *)
access_token_expire_minutes == 1440
ScoreMin == 0
ScoreMax == 10
SummaryMinLength == 1
SummaryMaxLength == 200

Procs == 1..NumProcs
Dates == 1..NumDates
Emails == {"a@x", "b@x"}

(* ------------------------------ strings -------------------------------- *)
(* A string is a sequence of characters; " " stands for any whitespace.    *)
Rep(c, n) == [i \in 1..n |-> c]
IsSpace(c) == c = " "

SetMin(S) == CHOOSE x \in S : \A y \in S : x <= y
SetMax(S) == CHOOSE x \in S : \A y \in S : x >= y

(* str.strip(): drop leading and trailing whitespace. *)
Strip(s) ==
    LET keep == {i \in 1..Len(s) : ~IsSpace(s[i])}
    IN IF keep = {} THEN <<>> ELSE SubSeq(s, SetMin(keep), SetMax(keep))

(* Optional values: <<>> is None, <<x>> is a supplied x. *)
None == <<>>
Some(x) == <<x>>
IsNone(o) == o = <<>>
Val(o) == o[1]

(* ------------------------------ schemas -------------------------------- *)
ScoreOk(n) == n >= ScoreMin /\ n <= ScoreMax
LengthOk(s) == Len(s) >= SummaryMinLength /\ Len(s) <= SummaryMaxLength

(* DayEntryCreate: the Field constraints are checked on the raw value, the  *)
(* field validator (mode "after") strips what passed them.                  *)
DayEntryCreateValid(score, summary) == ScoreOk(score) /\ LengthOk(summary)

(* DayEntryCreate without its field validator. *)
DayEntryCreateSummaryRaw(summary) == summary

DayEntryCreateSummary(summary) == Strip(summary)

(* DayEntryUpdate: both fields optional; `v.strip() if v else v`.           *)
DayEntryUpdateValid(score, summary) ==
    /\ IsNone(score) \/ ScoreOk(Val(score))
    /\ IsNone(summary) \/ LengthOk(Val(summary))
DayEntryUpdateSummary(summary) ==
    IF IsNone(summary) THEN None
    ELSE IF Val(summary) # <<>> THEN Some(Strip(Val(summary))) ELSE summary

(* save_day_entry's own validation of the form fields.                      *)
SaveDayEntryValid(score, summary) ==
    /\ ~(score < ScoreMin \/ score > ScoreMax)
    /\ ~(Len(Strip(summary)) = 0 \/ Len(summary) > SummaryMaxLength)

(* ------------------------------- tokens -------------------------------- *)
(* Time is counted in ticks, TicksPerSecond to the second.  A token is the  *)
(* claims it carries and whether its signature verifies under the key.      *)
TtlTicks == access_token_expire_minutes * 60 * TicksPerSecond
Seconds(t) == t \div TicksPerSecond

NoToken == [sub |-> 0, exp |-> 0, sig |-> "none"]
Malformed == [sub |-> 0, exp |-> 0, sig |-> "malformed"]

(* create_access_token: exp = utcnow() + ttl, encoded as whole seconds.     *)
create_access_token(sub, t) == [sub |-> sub, exp |-> Seconds(t + TtlTicks), sig |-> "ok"]

(* jwt.decode with the expiry check left out. *)
jwt_decode_no_exp(tok, t) ==
    IF tok.sig # "ok" THEN 0 ELSE tok.sub

(* jwt.decode: the user id of the token, or 0 where it raises JWTError      *)
(* (bad signature, malformed, exp earlier than the current second).         *)
jwt_decode(tok, t) ==
    IF tok.sig # "ok" THEN 0
    ELSE IF tok.exp < Seconds(t) THEN 0
    ELSE tok.sub

(* ------------------------------ calendar ------------------------------- *)
(* datetime.date as [year, month, day]; calendar.isleap, monthrange()[1],   *)
(* date.toordinal and date.weekday (Monday is 0) as the library has them.   *)
NoDate == [year |-> 0, month |-> 0, day |-> 0]
Date(y, m, d) == [year |-> y, month |-> m, day |-> d]

isleap(y) == y % 4 = 0 /\ (y % 100 # 0 \/ y % 400 = 0)
days_in_month(y, m) ==
    IF m = 2 THEN (IF isleap(y) THEN 29 ELSE 28)
    ELSE IF m \in {4, 6, 9, 11} THEN 30 ELSE 31

RECURSIVE days_before_month(_, _)
days_before_month(y, m) ==
    IF m = 1 THEN 0 ELSE days_before_month(y, m - 1) + days_in_month(y, m - 1)

toordinal(dt) ==
    LET y == dt.year - 1
    IN y * 365 + (y \div 4) - (y \div 100) + (y \div 400)
         + days_before_month(dt.year, dt.month) + dt.day
weekday(dt) == (toordinal(dt) + 6) % 7

(* get_score_color *)
get_score_color(score) ==
    IF IsNone(score) THEN "score-none"
    ELSE CASE Val(score) = 0 -> "score-0"
           [] Val(score) = 1 -> "score-1"
           [] Val(score) = 2 -> "score-2"
           [] Val(score) = 3 -> "score-3"
           [] Val(score) = 4 -> "score-4"
           [] Val(score) = 5 -> "score-5"
           [] Val(score) = 6 -> "score-6"
           [] Val(score) = 7 -> "score-7"
           [] Val(score) = 8 -> "score-8"
           [] Val(score) = 9 -> "score-9"
           [] Val(score) = 10 -> "score-10"
           [] OTHER -> "score-none"

(* The padding slot of a week (None in the code) and the slot of a day.     *)
NoDay == [date |-> NoDate, day |-> 0, entry |-> None, score_class |-> "",
          is_today |-> FALSE, is_future |-> FALSE]
day_data(current_date, entries, today) ==
    LET entry == IF current_date \in DOMAIN entries THEN Some(entries[current_date]) ELSE None
    IN [date |-> current_date, day |-> current_date.day, entry |-> entry,
        score_class |-> get_score_color(IF IsNone(entry) THEN None ELSE Some(Val(entry).score)),
        is_today |-> current_date = today,
        is_future |-> toordinal(current_date) > toordinal(today)]

(* The first weekday taken Monday-first, as date.weekday() gives it. *)
start_weekday_monday(first_day) == weekday(first_day)

(* start_weekday: Sunday is 0 *)
start_weekday(first_day) == (weekday(first_day) + 1) % 7

(* get_calendar_data: the loop over the days from day on, then the padding  *)
(* of the last week.                                                        *)
RECURSIVE calendar_loop(_, _, _, _, _, _, _)
calendar_loop(year, month, entries, today, day, current_week, weeks) ==
    IF day > days_in_month(year, month)
    THEN IF current_week # <<>>
         THEN Append(weeks, current_week \o [i \in 1..(7 - Len(current_week)) |-> NoDay])
         ELSE weeks
    ELSE LET week == Append(current_week, day_data(Date(year, month, day), entries, today))
         IN IF Len(week) = 7
            THEN calendar_loop(year, month, entries, today, day + 1, <<>>, Append(weeks, week))
            ELSE calendar_loop(year, month, entries, today, day + 1, week, weeks)

get_calendar_data(year, month, entries, today) ==
    calendar_loop(year, month, entries, today, 1,
                  [i \in 1..start_weekday(Date(year, month, 1)) |-> NoDay], <<>>)

(* ------------------------------- state --------------------------------- *)
VARIABLES
    users,      \* committed rows of table users: [id, email]
    entries,    \* committed rows of table day_entries
    wlock,      \* the request holding the write lock, 0 when free
    pend,       \* the tables as the lock holder's open transaction sees them
    req,        \* per request slot: the request in flight and its response
    issued,     \* the tokens handed out so far: [tok, at, uid], issued at instant at for user uid
    now         \* datetime.utcnow(), in ticks

vars == <<users, entries, wlock, pend, req, issued, now>>

NoRow == [id |-> 0, user_id |-> 0, date |-> 0, score |-> 0, summary |-> <<>>,
          created_at |-> 0, updated_at |-> 0]
NoPend == [users |-> {}, entries |-> {}]
NoFilter == [start_date |-> None, end_date |-> None, min_score |-> None, max_score |-> None]

(* An idle slot.  op: the operation; pc: where its handler stands; cookie,  *)
(* header: the access_token cookie and the Authorization header of a        *)
(* request taken as it came over the wire (None when not sent); cal: the    *)
(* arguments of a call of get_calendar_data and the day it is made; tok: the *)
(* token being issued, signed at instant at; uid: current_user.id (for a   *)
(* registration, the new user.id); sent: the body of a Create as the client *)
(* submitted it; score, summary: the validated fields; found: the row      *)
(* its SELECT loaded; loaded: ids of the rows loaded for cascade; status:   *)
(* the HTTP status of the response; resp: the rows the response carries.    *)
NoSent == [score |-> None, summary |-> None]
NoCal == [year |-> 0, month |-> 0, entries |-> <<>>, today |-> NoDate]
NoReq == [op |-> "none", pc |-> "idle", cookie |-> None, header |-> None, cal |-> NoCal,
          tok |-> NoToken, at |-> 0, uid |-> 0, email |-> "",
          date |-> 0, sent |-> NoSent, score |-> None, summary |-> None, flt |-> NoFilter,
          found |-> NoRow, loaded |-> {}, status |-> 0, resp |-> <<>>]

Init ==
    /\ users = {}
    /\ entries = {}
    /\ wlock = 0
    /\ pend = NoPend
    /\ req = [p \in Procs |-> NoReq]
    /\ issued = {}
    /\ now = 0

(* ------------------------------ storage -------------------------------- *)
(* INTEGER PRIMARY KEY: one more than the largest id in the table.         *)
NextId(rows) == IF rows = {} THEN 1 ELSE SetMax({r.id : r \in rows}) + 1

(* The lookup without its user_id clause. *)
SelectEntryAnyUser(rows, u, d) ==
    LET hit == {e \in rows : e.date = d}
    IN IF hit = {} THEN NoRow ELSE CHOOSE e \in hit : TRUE

(* select(DayEntry).where(user_id == u, date == d).scalar_one_or_none()    *)
SelectEntry(rows, u, d) ==
    LET hit == {e \in rows : e.user_id = u /\ e.date = d}
    IN IF hit = {} THEN NoRow ELSE CHOOSE e \in hit : TRUE

(* The email lookup that never finds a user. *)
get_user_by_email_none(rows, email) == {}

(* get_user_by_id / get_user_by_email *)
get_user_by_id(rows, id) == {u \in rows : u.id = id}
get_user_by_email(rows, email) == {u \in rows : u.email = email}

(* The table without uq_user_date. *)
UqUserDateDropped(rows, u, d) == TRUE

(* UniqueConstraint("user_id", "date"): may this row be inserted?          *)
UqUserDate(rows, u, d) == \A e \in rows : ~(e.user_id = u /\ e.date = d)
(* users.email unique=True *)
UqEmail(rows, email) == \A u \in rows : u.email # email

(* The row with primary key id, NoRow when there is none. *)
RowById(rows, id) ==
    LET hit == {e \in rows : e.id = id}
    IN IF hit = {} THEN NoRow ELSE CHOOSE e \in hit : TRUE

(* -------------------------- access resolution -------------------------- *)
(* get_current_user: the id of the user the token resolves to, 0 where it  *)
(* raises 401 (no token, JWTError, no "sub", no such user).                *)
get_current_user(tok, t, rows) ==
    IF tok.sig = "none" THEN 0
    ELSE LET user_id == jwt_decode(tok, t)
         IN IF user_id = 0 THEN 0
            ELSE IF get_user_by_id(rows, user_id) = {} THEN 0
            ELSE user_id

(* ------------------------ token extraction ----------------------------- *)
(* Text on the wire is a sequence of symbols: characters, and one symbol    *)
(* for the whole text of a JWT ("1" for a token with sub 1).                *)
Bearer == <<"B", "e", "a", "r", "e", "r", " ">>
Lower(c) == IF c = "B" THEN "b" ELSE c

(* The text jwt.encode gave a token, and the token a text decodes to.       *)
JwtText(tok) == ToString(tok.sub)
JwtParse(text, toks) ==
    LET hit == {t \in toks : text = <<JwtText(t)>>}
    IN IF hit = {} THEN Malformed ELSE CHOOSE t \in hit : TRUE

(* OAuth2PasswordBearer(auto_error=False): the Authorization header split   *)
(* at its first space; the parameter if the scheme is "bearer" in any case. *)
oauth2_scheme(header) ==
    IF IsNone(header) \/ Val(header) = <<>> THEN None
    ELSE LET h == Val(header)
             sp == {i \in 1..Len(h) : h[i] = " "}
             cut == IF sp = {} THEN Len(h) + 1 ELSE SetMin(sp)
             scheme == [i \in 1..(cut - 1) |-> Lower(h[i])]
         IN IF scheme # <<"b", "e", "a", "r", "e", "r">> THEN None
            ELSE Some(SubSeq(h, cut + 1, Len(h)))

(* The extraction that tries the header first. *)
get_token_header_first(cookie, token) ==
    IF ~IsNone(token) THEN token
    ELSE IF ~IsNone(cookie) /\ Val(cookie) # <<>>
    THEN IF Len(Val(cookie)) >= 7 /\ SubSeq(Val(cookie), 1, 7) = Bearer
         THEN Some(SubSeq(Val(cookie), 8, Len(Val(cookie))))
         ELSE cookie
    ELSE token

(* get_token_from_cookie_or_header: token is what oauth2_scheme gave.       *)
get_token_from_cookie_or_header(cookie, token) ==
    IF ~IsNone(cookie) /\ Val(cookie) # <<>>
    THEN IF Len(Val(cookie)) >= 7 /\ SubSeq(Val(cookie), 1, 7) = Bearer
         THEN Some(SubSeq(Val(cookie), 8, Len(Val(cookie))))
         ELSE cookie
    ELSE token

(* The token the dependencies hand to jwt.decode: `if not token` covers     *)
(* None and the empty text.                                                 *)
TokenOf(token, toks) ==
    IF IsNone(token) \/ Val(token) = <<>> THEN NoToken ELSE JwtParse(Val(token), toks)

(* get_current_user_optional: the id of the user, 0 for None.               *)
get_current_user_optional(tok, t, rows) ==
    IF tok.sig = "none" THEN 0
    ELSE LET user_id == jwt_decode(tok, t)
         IN IF user_id = 0 THEN 0
            ELSE IF get_user_by_id(rows, user_id) = {} THEN 0 ELSE user_id

(* The response of a request that is over: its inputs are dropped, but for  *)
(* the body of a Create that was answered 201, which its client holds.     *)
Finished(r, status, resp) ==
    [NoReq EXCEPT !.op = r.op, !.pc = "done", !.uid = r.uid, !.date = r.date,
                  !.sent = IF status = 201 THEN r.sent ELSE NoSent,
                  !.status = status, !.resp = resp]

Free(p) == req[p].pc \in {"idle", "done"}

(* A request for an entry operation arrives: the dependencies resolve the   *)
(* user, then the body is validated against the operation's schema.         *)
Arrive(p, op, tok, d, score, summary, flt) ==
    /\ Free(p)
    /\ LET uid == get_current_user(tok, now, users)
           r == [NoReq EXCEPT !.op = op, !.uid = uid, !.date = d]
       IN req' = [req EXCEPT ![p] =
            IF uid = 0 THEN Finished([r EXCEPT !.date = 0], 401, <<>>)
            ELSE IF op = "create" /\ ~DayEntryCreateValid(Val(score), Val(summary))
                 THEN Finished(r, 422, <<>>)
            ELSE IF op = "update" /\ ~DayEntryUpdateValid(score, summary)
                 THEN Finished(r, 422, <<>>)
            ELSE IF op = "get_me" THEN Finished(r, 200, <<>>)
            ELSE [r EXCEPT !.pc = "handler",
                           !.sent = IF op = "create"
                                    THEN [score |-> score, summary |-> summary]
                                    ELSE NoSent,
                           !.score = score,
                           !.summary = IF op = "create"
                                       THEN Some(DayEntryCreateSummary(Val(summary)))
                                       ELSE IF op = "update"
                                       THEN DayEntryUpdateSummary(summary)
                                       ELSE summary,
                           !.flt = flt]]
    /\ UNCHANGED <<users, entries, wlock, pend, issued, now>>

(* A request for /api/auth/me (strict mode) or for the login page (optional *)
(* mode) comes in with its cookie and its Authorization header.             *)
Receive(p, op, cookie, header) ==
    /\ Free(p)
    /\ req' = [req EXCEPT ![p] = [NoReq EXCEPT !.op = op, !.pc = "received",
                                               !.cookie = cookie, !.header = header]]
    /\ UNCHANGED <<users, entries, wlock, pend, issued, now>>

(* Its dependencies run: get_me answers the user or 401; login_page         *)
(* redirects a user to the calendar (302) and renders the form for nobody.  *)
Resolve(p) ==
    /\ req[p].pc = "received"
    /\ LET r == req[p]
           token == get_token_from_cookie_or_header(r.cookie, oauth2_scheme(r.header))
           tok == TokenOf(token, {i.tok : i \in issued})
           uid == IF r.op = "get_me" THEN get_current_user(tok, now, users)
                  ELSE get_current_user_optional(tok, now, users)
       IN req' = [req EXCEPT ![p] =
                    [r EXCEPT !.pc = "done", !.uid = uid,
                              !.status = IF r.op = "get_me"
                                         THEN IF uid = 0 THEN 401 ELSE 200
                                         ELSE IF uid = 0 THEN 200 ELSE 302]]
    /\ UNCHANGED <<users, entries, wlock, pend, issued, now>>

(* get_calendar_data is called with the arguments the slot holds.           *)
CalendarData(p) ==
    /\ req[p].op = "calendar_data" /\ req[p].pc = "called"
    /\ LET c == req[p].cal
       IN req' = [req EXCEPT ![p] =
                    [@ EXCEPT !.pc = "done",
                              !.resp = get_calendar_data(c.year, c.month, c.entries, c.today)]]
    /\ UNCHANGED <<users, entries, wlock, pend, issued, now>>

(* db.add(entry); flush(); refresh(entry): the INSERT takes the write lock, *)
(* fails on uq_user_date with IntegrityError (nothing catches it: get_db    *)
(* rolls back and the request ends 500), else the row is in the session's   *)
(* open transaction and the handler returns it.                             *)
InsertEntry(p, status) ==
    LET r == req[p]
        row == [id |-> NextId(entries), user_id |-> r.uid, date |-> r.date,
                score |-> Val(r.score), summary |-> Val(r.summary),
                created_at |-> now, updated_at |-> now]
    IN /\ wlock = 0
       /\ IF ~UqUserDate(entries, r.uid, r.date)
          THEN /\ req' = [req EXCEPT ![p] = Finished(r, 500, <<>>)]
               /\ UNCHANGED <<wlock, pend>>
          ELSE /\ row.id <= MaxEntryId
               /\ wlock' = p
               /\ pend' = [users |-> users, entries |-> entries \cup {row}]
               /\ req' = [req EXCEPT ![p] =
                            [r EXCEPT !.pc = "commit", !.status = status, !.resp = <<row>>]]
       /\ UNCHANGED <<users, entries, issued, now>>

(* entry.score = ..; entry.summary = ..; flush(); refresh(entry).  The unit *)
(* of work SETs the columns whose value differs from the one it loaded and, *)
(* with them, updated_at (onupdate); when no column differs it emits no     *)
(* UPDATE at all.  The UPDATE is by primary key: matching no row raises     *)
(* StaleDataError; refresh of a row that is gone raises too (500).          *)
UpdateEntry(p, new_score, new_summary) ==
    LET r == req[p]
        f == r.found
        set_score == new_score # f.score
        set_summary == new_summary # f.summary
        cur == RowById(entries, f.id)
        row == [cur EXCEPT !.score = IF set_score THEN new_score ELSE @,
                           !.summary = IF set_summary THEN new_summary ELSE @,
                           !.updated_at = now]
    IN /\ IF ~set_score /\ ~set_summary
          THEN /\ req' = [req EXCEPT ![p] =
                            IF cur = NoRow THEN Finished(r, 500, <<>>)
                            ELSE [r EXCEPT !.pc = "commit", !.status = 200, !.resp = <<cur>>]]
               /\ UNCHANGED <<wlock, pend>>
          ELSE /\ wlock = 0
               /\ IF cur = NoRow
                  THEN /\ req' = [req EXCEPT ![p] = Finished(r, 500, <<>>)]
                       /\ UNCHANGED <<wlock, pend>>
                  ELSE /\ wlock' = p
                       /\ pend' = [users |-> users,
                                   entries |-> (entries \ {cur}) \cup {row}]
                       /\ req' = [req EXCEPT ![p] =
                                    [r EXCEPT !.pc = "commit", !.status = 200, !.resp = <<row>>]]
       /\ UNCHANGED <<users, entries, issued, now>>

(* ------------------------- entries router (API) ------------------------ *)
(* get_entry *)
GetEntry(p) ==
    /\ req[p].op = "get" /\ req[p].pc = "handler"
    /\ LET entry == SelectEntry(entries, req[p].uid, req[p].date)
       IN req' = [req EXCEPT ![p] =
                    IF entry = NoRow THEN Finished(@, 404, <<>>)
                    ELSE Finished(@, 200, <<entry>>)]
    /\ UNCHANGED <<users, entries, wlock, pend, issued, now>>

(* create_entry without its existence check. *)
CreateCheckSkipped(p) ==
    /\ req[p].op = "create" /\ req[p].pc = "handler"
    /\ req' = [req EXCEPT ![p] = [@ EXCEPT !.pc = "flush"]]
    /\ UNCHANGED <<users, entries, wlock, pend, issued, now>>

(* create_entry, up to the existence check *)
CreateCheck(p) ==
    /\ req[p].op = "create" /\ req[p].pc = "handler"
    /\ LET existing == SelectEntry(entries, req[p].uid, req[p].date)
       IN req' = [req EXCEPT ![p] =
                    IF existing # NoRow THEN Finished(@, 400, <<>>)
                    ELSE [@ EXCEPT !.pc = "flush"]]
    /\ UNCHANGED <<users, entries, wlock, pend, issued, now>>

(* create_entry, db.add .. return entry *)
CreateFlush(p) ==
    /\ req[p].op = "create" /\ req[p].pc = "flush"
    /\ InsertEntry(p, 201)

(* update_entry, up to the 404 *)
UpdateSelect(p) ==
    /\ req[p].op = "update" /\ req[p].pc = "handler"
    /\ LET entry == SelectEntry(entries, req[p].uid, req[p].date)
       IN req' = [req EXCEPT ![p] =
                    IF entry = NoRow THEN Finished(@, 404, <<>>)
                    ELSE [@ EXCEPT !.pc = "flush", !.found = entry]]
    /\ UNCHANGED <<users, entries, wlock, pend, issued, now>>

(* update_entry assigning both fields whether supplied or not. *)
UpdateFlushAll(p) ==
    /\ req[p].op = "update" /\ req[p].pc = "flush"
    /\ UpdateEntry(p,
         IF IsNone(req[p].score) THEN ScoreMin ELSE Val(req[p].score),
         IF IsNone(req[p].summary) THEN <<>> ELSE Val(req[p].summary))

(* update_entry, "Update fields if provided" .. return entry *)
UpdateFlush(p) ==
    /\ req[p].op = "update" /\ req[p].pc = "flush"
    /\ UpdateEntry(p,
         IF IsNone(req[p].score) THEN req[p].found.score ELSE Val(req[p].score),
         IF IsNone(req[p].summary) THEN req[p].found.summary ELSE Val(req[p].summary))

(* delete_entry: the row is marked deleted; the DELETE goes out at commit. *)
DeleteSelect(p) ==
    /\ req[p].op = "delete" /\ req[p].pc = "handler"
    /\ LET entry == SelectEntry(entries, req[p].uid, req[p].date)
       IN req' = [req EXCEPT ![p] =
                    IF entry = NoRow THEN Finished(@, 404, <<>>)
                    ELSE [@ EXCEPT !.pc = "commit", !.found = entry, !.status = 204]]
    /\ UNCHANGED <<users, entries, wlock, pend, issued, now>>

(* list_entries testing max_score for truth instead of for None. *)
ListMatchesTruthy(rows, u, flt) ==
    {e \in rows :
        /\ e.user_id = u
        /\ IsNone(flt.start_date) \/ e.date >= Val(flt.start_date)
        /\ IsNone(flt.end_date) \/ e.date <= Val(flt.end_date)
        /\ IsNone(flt.min_score) \/ e.score >= Val(flt.min_score)
        /\ IsNone(flt.max_score) \/ Val(flt.max_score) = 0 \/ e.score <= Val(flt.max_score)}

(* list_entries: the WHERE clauses and ORDER BY date DESC *)
ListMatches(rows, u, flt) ==
    {e \in rows :
        /\ e.user_id = u
        /\ IsNone(flt.start_date) \/ e.date >= Val(flt.start_date)
        /\ IsNone(flt.end_date) \/ e.date <= Val(flt.end_date)
        /\ IsNone(flt.min_score) \/ e.score >= Val(flt.min_score)
        /\ IsNone(flt.max_score) \/ e.score <= Val(flt.max_score)}

RECURSIVE OrderByDateDesc(_)
OrderByDateDesc(rows) ==
    IF rows = {} THEN <<>>
    ELSE LET top == CHOOSE e \in rows : \A f \in rows : f.date <= e.date
         IN <<top>> \o OrderByDateDesc(rows \ {top})

(* DayEntryListResponse(entries=entries, total=len(entries)).total *)
Total(resp) == Len(resp)

ListEntries(p) ==
    /\ req[p].op = "list" /\ req[p].pc = "handler"
    /\ req' = [req EXCEPT ![p] =
                 Finished(@, 200, OrderByDateDesc(ListMatches(entries, @.uid, @.flt)))]
    /\ UNCHANGED <<users, entries, wlock, pend, issued, now>>

(* ---------------------------- pages router ----------------------------- *)
(* save_day_entry, validation and lookup *)
SaveSelect(p) ==
    /\ req[p].op = "upsert" /\ req[p].pc = "handler"
    /\ LET r == req[p]
           entry == SelectEntry(entries, r.uid, r.date)
       IN req' = [req EXCEPT ![p] =
                    IF ~SaveDayEntryValid(Val(r.score), Val(r.summary))
                    THEN Finished(r, 400, <<>>)
                    ELSE [r EXCEPT !.pc = "flush", !.found = entry,
                                   !.summary = Some(Strip(Val(r.summary)))]]
    /\ UNCHANGED <<users, entries, wlock, pend, issued, now>>

(* save_day_entry, "if entry: .. else: .." and the flush *)
SaveFlush(p) ==
    /\ req[p].op = "upsert" /\ req[p].pc = "flush"
    /\ IF req[p].found # NoRow
       THEN UpdateEntry(p, Val(req[p].score), Val(req[p].summary))
       ELSE InsertEntry(p, 200)

(* delete_day_entry answering like the strict delete. *)
DeleteDayStrict(p) ==
    /\ req[p].op = "delete_day" /\ req[p].pc = "handler"
    /\ LET entry == SelectEntry(entries, req[p].uid, req[p].date)
       IN req' = [req EXCEPT ![p] =
                    IF entry = NoRow THEN Finished(@, 404, <<>>)
                    ELSE [@ EXCEPT !.pc = "commit", !.found = entry, !.status = 200]]
    /\ UNCHANGED <<users, entries, wlock, pend, issued, now>>

(* delete_day_entry: "if entry: await db.delete(entry)", always 200 *)
DeleteDaySelect(p) ==
    /\ req[p].op = "delete_day" /\ req[p].pc = "handler"
    /\ LET entry == SelectEntry(entries, req[p].uid, req[p].date)
       IN req' = [req EXCEPT ![p] = [@ EXCEPT !.pc = "commit", !.found = entry, !.status = 200]]
    /\ UNCHANGED <<users, entries, wlock, pend, issued, now>>

(* ------------------------------ accounts ------------------------------- *)
AccountOps == {"delete_account", "delete_account_page"}

(* delete_account / delete_account_page: db.delete(user) loads user.entries *)
(* for the cascade; the DELETEs go out at commit.                           *)
DeleteAccountLoad(p) ==
    /\ req[p].op \in AccountOps /\ req[p].pc = "handler"
    /\ LET r == req[p]
       IN req' = [req EXCEPT ![p] =
                    [r EXCEPT !.pc = "commit",
                              !.loaded = {e.id : e \in {x \in entries : x.user_id = r.uid}},
                              !.status = IF r.op = "delete_account" THEN 204 ELSE 302]]
    /\ UNCHANGED <<users, entries, wlock, pend, issued, now>>

(* register / register_submit arrive and look the email up.                 *)
RegisterCheck(p, op, email) ==
    /\ Free(p)
    /\ LET r == [NoReq EXCEPT !.op = op, !.email = email]
       IN req' = [req EXCEPT ![p] =
                    IF get_user_by_email(users, email) # {} THEN Finished(r, 400, <<>>)
                    ELSE [r EXCEPT !.pc = "flush"]]
    /\ UNCHANGED <<users, entries, wlock, pend, issued, now>>

(* db.add(user); flush(): the INSERT, IntegrityError on a taken email.      *)
(* register_submit then signs a token for the new id.                       *)
RegisterFlush(p) ==
    /\ req[p].op \in {"register", "register_submit"} /\ req[p].pc = "flush"
    /\ wlock = 0
    /\ LET r == req[p]
           user == [id |-> NextId(users), email |-> r.email]
       IN IF ~UqEmail(users, r.email)
          THEN /\ req' = [req EXCEPT ![p] = Finished(r, 500, <<>>)]
               /\ UNCHANGED <<wlock, pend>>
          ELSE /\ user.id <= MaxUserId
               /\ wlock' = p
               /\ pend' = [users |-> users \cup {user}, entries |-> entries]
               /\ req' = [req EXCEPT ![p] =
                            [r EXCEPT !.pc = "commit", !.uid = user.id,
                                      !.status = IF r.op = "register" THEN 201 ELSE 302,
                                      !.tok = IF r.op = "register" THEN NoToken
                                              ELSE create_access_token(user.id, now),
                                      !.at = now]]
    /\ UNCHANGED <<users, entries, issued, now>>

(* login / login_submit: authenticate_user, then a token for user.id.       *)
Login(p, email, password_ok) ==
    /\ Free(p)
    /\ LET r == [NoReq EXCEPT !.op = "login", !.email = email]
           user == get_user_by_email(users, email)
       IN IF user = {} \/ ~password_ok
          THEN /\ req' = [req EXCEPT ![p] = Finished(r, 401, <<>>)]
               /\ UNCHANGED issued
          ELSE LET u == CHOOSE x \in user : TRUE
               IN /\ issued' = issued \cup {[tok |-> create_access_token(u.id, now),
                                               at |-> now, uid |-> u.id]}
                  /\ req' = [req EXCEPT ![p] = Finished([r EXCEPT !.uid = u.id], 200, <<>>)]
    /\ UNCHANGED <<users, entries, wlock, pend, now>>

(* ----------------------- get_db: commit on success --------------------- *)
(* session.commit() after the handler returned.  A session that flushed in  *)
(* the handler publishes its transaction; one that only marked rows deleted *)
(* flushes the DELETEs (by primary key) and commits in one go.              *)
Commit(p) ==
    /\ req[p].pc = "commit"
    /\ LET r == req[p]
           deletes == \/ r.op \in AccountOps
                      \/ r.op \in {"delete", "delete_day"} /\ r.found # NoRow
       IN IF wlock = p
          THEN /\ users' = pend.users
               /\ entries' = pend.entries
               /\ issued' = IF r.op = "register_submit"
                            THEN issued \cup {[tok |-> r.tok, at |-> r.at, uid |-> r.uid]}
                            ELSE issued
               /\ wlock' = 0
               /\ pend' = NoPend
          ELSE IF deletes
          THEN /\ wlock = 0
               /\ entries' = {e \in entries : e.id # r.found.id /\ e.id \notin r.loaded}
               /\ users' = IF r.op \in AccountOps THEN {u \in users : u.id # r.uid} ELSE users
               /\ UNCHANGED <<issued, wlock, pend>>
          ELSE UNCHANGED <<users, entries, issued, wlock, pend>>
    /\ req' = [req EXCEPT ![p] = Finished(@, @.status, @.resp)]
    /\ UNCHANGED now

(* Time passes: d ticks, up to the instant limit. *)
Pass(d, limit) ==
    /\ now + d <= limit
    /\ now' = now + d
    /\ UNCHANGED <<users, entries, wlock, pend, req, issued>>

(* ------------------------- what clients submit ------------------------- *)
Opt(S) == {None} \cup {Some(x) : x \in S}

(* The entry requests of a client holding token tok: for the dates D, with  *)
(* the scores SC and the summaries SM to choose from for a create or a      *)
(* save, and the optional fields USC and USM for an update.                 *)
ArriveWrite(p, tok, D, SC, SM, USC, USM) ==
    \E d \in D :
        \/ \E op \in {"create", "upsert"}, sc \in SC, sm \in SM :
              Arrive(p, op, tok, d, Some(sc), Some(sm), NoFilter)
        \/ \E sc \in USC, sm \in USM :
              Arrive(p, "update", tok, d, sc, sm, NoFilter)
        \/ \E op \in {"delete", "delete_day"} :
              Arrive(p, op, tok, d, None, None, NoFilter)

ArriveRead(p, tok, D, FL) ==
    \/ \E d \in D : Arrive(p, "get", tok, d, None, None, NoFilter)
    \/ \E flt \in FL : Arrive(p, "list", tok, 0, None, None, flt)

ArriveAccount(p, tok, ops) ==
    \E op \in ops : Arrive(p, op, tok, 0, None, None, NoFilter)

(* The steps of the handlers that write, and the commit. *)
WriteSteps(p) ==
    \/ CreateCheck(p)
    \/ CreateFlush(p)
    \/ UpdateSelect(p)
    \/ UpdateFlush(p)
    \/ DeleteSelect(p)
    \/ SaveSelect(p)
    \/ SaveFlush(p)
    \/ DeleteDaySelect(p)
    \/ DeleteAccountLoad(p)
    \/ RegisterFlush(p)
    \/ Commit(p)

Tokens == {i.tok : i \in issued}

(* Concurrent requests: every slot may be in flight at once, all within one *)
(* tick of the clock, with well-formed bodies, for a single date.           *)
Next ==
    \E p \in Procs :
        \/ \E tok \in Tokens : ArriveWrite(p, tok, {1}, {ScoreMax}, {<<"a">>, <<" ">>},
                                           {None}, {Some(<<"a">>), Some(<<" ">>)})
        \/ \E tok \in Tokens : ArriveAccount(p, tok, {"delete_account"})
        \/ \E email \in Emails : RegisterCheck(p, "register_submit", email)
        \/ WriteSteps(p)

Spec == Init /\ [][Next]_vars

(* One request at a time, all within one tick: two accounts, every date,    *)
(* every operation of the entry service.                                    *)
SeqScores == {ScoreMin, ScoreMax}
SeqSummaries == {<<"a">>, <<" ", "b">>}
SeqFilters == [start_date : {None, Some(NumDates)}, end_date : {None, Some(1)},
               min_score : {None, Some(ScoreMin), Some(ScoreMax)},
               max_score : {None, Some(ScoreMin)}]

NextSeq ==
    \/ \E tok \in Tokens : ArriveWrite(1, tok, Dates, SeqScores, SeqSummaries,
                                       Opt(SeqScores), Opt(SeqSummaries))
    \/ \E tok \in Tokens : ArriveRead(1, tok, Dates, SeqFilters)
    \/ \E tok \in Tokens : ArriveAccount(1, tok, AccountOps)
    \/ \E email \in Emails, op \in {"register", "register_submit"} : RegisterCheck(1, op, email)
    \/ \E email \in Emails, ok \in BOOLEAN : Login(1, email, ok)
    \/ WriteSteps(1)
    \/ GetEntry(1)
    \/ ListEntries(1)

SpecSeq == Init /\ [][NextSeq]_vars

(* One request at a time while the clock runs: one account, one date, and   *)
(* bodies of every shape, the invalid ones included.                        *)
ScoreInputs == {ScoreMin - 1, ScoreMin, ScoreMax, ScoreMax + 1}
SummaryInputs == {<<>>, <<" ">>, <<"a">>, <<" ", "a", " ">>,
                  Rep("x", SummaryMaxLength), Rep("x", SummaryMaxLength + 1)}

NextDay ==
    \/ \E tok \in Tokens : ArriveWrite(1, tok, {1}, ScoreInputs, SummaryInputs,
                                       Opt(ScoreInputs), Opt(SummaryInputs))
    \/ \E tok \in Tokens : ArriveRead(1, tok, {1}, {NoFilter})
    \/ \E tok \in Tokens : ArriveAccount(1, tok, {"delete_account_page"})
    \/ RegisterCheck(1, "register_submit", "a@x")
    \/ WriteSteps(1)
    \/ GetEntry(1)
    \/ ListEntries(1)
    \/ Pass(1, MaxClock)

SpecDay == Init /\ [][NextDay]_vars

(* Write, then read, one request at a time: slot 1 carries the writes of    *)
(* an account, slot 2 the Gets that follow them; summaries come bare,       *)
(* padded with whitespace and all whitespace.                               *)
TripSummaries == {<<"a">>, <<" ", "a", " ">>, <<" ">>}

NextTrip ==
    \/ /\ Free(2)
       /\ \/ \E tok \in Tokens : ArriveWrite(1, tok, Dates, SeqScores, TripSummaries,
                                             {None}, {Some(<<"b">>)})
          \/ \E tok \in Tokens : ArriveAccount(1, tok, {"delete_account"})
          \/ RegisterCheck(1, "register_submit", "a@x")
          \/ WriteSteps(1)
    \/ Free(1) /\ \E tok \in Tokens, d \in Dates : Arrive(2, "get", tok, d, None, None, NoFilter)
    \/ GetEntry(2)

SpecTrip == Init /\ [][NextTrip]_vars

(* Registrations, concurrent, on both paths, with emails that differ in     *)
(* case only; accounts are deleted and emails registered again.             *)
RegEmails == Emails \cup {"A@x"}

NextReg ==
    \E p \in Procs :
        \/ \E email \in RegEmails, op \in {"register", "register_submit"} :
              RegisterCheck(p, op, email)
        \/ RegisterFlush(p)
        \/ \E tok \in Tokens : ArriveAccount(p, tok, AccountOps)
        \/ DeleteAccountLoad(p)
        \/ Commit(p)

SpecReg == Init /\ [][NextReg]_vars

(* Requests as they come over the wire, one at a time and within one tick:  *)
(* cookies and headers carrying an issued token, with and without the       *)
(* "Bearer " prefix, in another case, under another scheme, or junk.        *)
WireTexts(syms) ==
    {<<>>, Bearer} \cup {<<x>> : x \in syms} \cup {Bearer \o <<x>> : x \in syms}
        \cup {<<"b", "e", "a", "r", "e", "r", " ", x>> : x \in syms}
        \cup {<<"B", "a", "s", "i", "c", " ", x>> : x \in syms}
WireSyms == {JwtText(t) : t \in Tokens} \cup {"junk"}

NextHttp ==
    \/ \E email \in Emails : RegisterCheck(1, "register_submit", email)
    \/ RegisterFlush(1)
    \/ \E tok \in Tokens : ArriveAccount(1, tok, {"delete_account_page"})
    \/ DeleteAccountLoad(1)
    \/ Commit(1)
    \/ \E op \in {"get_me", "login_page"},
          cookie \in Opt(WireTexts(WireSyms)), header \in Opt(WireTexts(WireSyms)) :
          Receive(1, op, cookie, header)
    \/ Resolve(1)

SpecHttp == Init /\ [][NextHttp]_vars

(* get_calendar_data called for every month of a few years (leap, common,   *)
(* century), with entries on the first and the last day of the month and    *)
(* on a day of another month.                                               *)
CalYears == {1900, 2000, 2023, 2024}
CalScores == {ScoreMin, 5, ScoreMax}
CalKeys(y, m) == {Date(y, m, 1), Date(y, m, days_in_month(y, m)), Date(y, (m % 12) + 1, 1)}
CalDicts(y, m) == UNION {[K -> [score : CalScores]] : K \in SUBSET CalKeys(y, m)}

InitCal ==
    /\ users = {} /\ entries = {} /\ wlock = 0 /\ pend = NoPend /\ issued = {} /\ now = 0
    /\ \E y \in CalYears, m \in 1..12 :
          \E dict \in CalDicts(y, m), today \in {Date(2024, 2, 29), Date(y, m, 1)} :
             req = [p \in Procs |->
                      IF p = 1
                      THEN [NoReq EXCEPT !.op = "calendar_data", !.pc = "called",
                                         !.cal = [year |-> y, month |-> m,
                                                  entries |-> dict, today |-> today]]
                      ELSE NoReq]

NextCal == CalendarData(1)

SpecCal == InitCal /\ [][NextCal]_vars

(* Tokens over a day: one request at a time; the clock ticks, jumps one     *)
(* time-to-live ahead and ticks again; clients present the tokens they      *)
(* were given, those tokens with another signature, garbage, or nothing.    *)
Forged == {[t EXCEPT !.sig = "bad"] : t \in Tokens}
AuthHorizon == TtlTicks + MaxClock

NextAuth ==
    \/ \E email \in Emails : RegisterCheck(1, "register", email)
    \/ RegisterFlush(1)
    \/ \E email \in Emails, ok \in BOOLEAN : Login(1, email, ok)
    \/ \E tok \in Tokens \cup Forged \cup {NoToken, Malformed} :
          Arrive(1, "get_me", tok, 0, None, None, NoFilter)
    \/ \E tok \in Tokens : ArriveAccount(1, tok, {"delete_account"})
    \/ DeleteAccountLoad(1)
    \/ Commit(1)
    \/ Pass(1, MaxClock)
    \/ Pass(TtlTicks, AuthHorizon)
    \/ now >= TtlTicks /\ Pass(1, AuthHorizon)

SpecAuth == Init /\ [][NextAuth]_vars

(* ============================== claims ================================= *)

(* C1: in every reachable state, whatever the interleaving of Create,      *)
(* Update, Upsert, both Deletes and Delete-account, the entry store (and   *)
(* the table as an open transaction sees it) holds at most one Entry for   *)
(* each (user, date) pair.                                                 *)
C1_OneEntryPerUserDate ==
    \A rows \in {entries, pend.entries} :
        \A e1 \in rows, e2 \in rows :
            (e1.user_id = e2.user_id /\ e1.date = e2.date) => e1 = e2

(* C1 witness: a Create that passed its pre-check was stopped by the       *)
(* constraint while the entry of its (user, date) is in the store.         *)
C1_Witness ==
    \E p \in Procs :
        /\ req[p].op = "create" /\ req[p].pc = "done" /\ req[p].status = 500
        /\ \E e \in entries : e.user_id = req[p].uid /\ e.date = req[p].date

(* C2: a Create that ends without creating its entry ends with the         *)
(* Bad-Request of the pre-check (or was refused before the handler ran:    *)
(* 401, 422); the uniqueness violation of a lost race is not surfaced as   *)
(* a storage error, and no two entries result.                             *)
C2_RaceLoserGetsBadRequest ==
    /\ \A p \in Procs :
          (req[p].op = "create" /\ req[p].pc = "done")
              => req[p].status \in {201, 400, 401, 422}
    /\ C1_OneEntryPerUserDate

(* C9: the step that commits Delete-account for user u leaves no Entry     *)
(* owned by u in the store.                                                *)
C9_CascadeDelete ==
    [][\A p \in Procs :
          (req[p].op \in AccountOps /\ req[p].pc = "commit" /\ req'[p].pc = "done")
              => \A e \in entries' : e.user_id # req[p].uid]_vars

(* The entries of user u for date d in the store. *)
Owned(rows, u) == {e \in rows : e.user_id = u}
OwnedOn(rows, u, d) == {e \in rows : e.user_id = u /\ e.date = d}

(* C3: a strict Create that reaches the handler while an Entry for its     *)
(* (user, date) exists ends 400 (not 404, not 201) at the existence check   *)
(* and changes nothing; and no step of any Create request removes or        *)
(* modifies an entry that is in the store: score, summary and both          *)
(* timestamps of every existing entry stay as they were.                    *)
C3_CreateNeverOverwrites ==
    [][\A p \in Procs :
          (req[p].op = "create" /\ req'[p] # req[p])
              => /\ \A e \in entries : e \in entries'
                 /\ (req[p].pc = "handler" /\ OwnedOn(entries, req[p].uid, req[p].date) # {})
                       => /\ req'[p].pc = "done"
                          /\ req'[p].status = 400
                          /\ entries' = entries]_vars

(* C3 witness: a Create was refused 400 for a (user, date) whose entry,     *)
(* written at an earlier instant, is in the store.                          *)
C3_Witness ==
    \E p \in Procs :
        /\ req[p].op = "create" /\ req[p].pc = "done" /\ req[p].status = 400
        /\ \E e \in OwnedOn(entries, req[p].uid, req[p].date) : e.updated_at < now

(* C5: the second of two Upserts with the same (u, d, score, summary),      *)
(* made at a later instant than the first, leaves exactly one entry for     *)
(* (u, d) with the same score and summary and a strictly greater            *)
(* updated-timestamp.                                                       *)
C5_IdenticalUpsertRefreshesTimestamp ==
    [][\A p \in Procs :
          LET r == req[p]
          IN (/\ r.op = "upsert" /\ r.pc = "commit" /\ req'[p].pc = "done"
              /\ r.found # NoRow
              /\ r.found.score = Val(r.score) /\ r.found.summary = Val(r.summary)
              /\ r.found.updated_at < now)
                => /\ Cardinality(OwnedOn(entries', r.uid, r.date)) = 1
                   /\ \A e \in OwnedOn(entries', r.uid, r.date) :
                         /\ e.score = r.found.score
                         /\ e.summary = r.found.summary
                         /\ e.updated_at > r.found.updated_at]_vars

(* C7: every stored Entry has a score in 0..10 and a summary that is        *)
(* non-empty, at most 200 characters long and without leading or trailing   *)
(* whitespace.                                                              *)
C7_StoredEntriesWellFormed ==
    \A e \in entries :
        /\ e.score \in ScoreMin..ScoreMax
        /\ Len(e.summary) >= 1
        /\ Len(e.summary) <= SummaryMaxLength
        /\ Strip(e.summary) = e.summary

(* C4: what Get, Update, strict Delete and List answer to user A is what   *)
(* they answer on A's own rows alone, whatever other users hold: with no    *)
(* entry of A on d the three lookups end 404 (never 403), also when another *)
(* user has an entry on d; a Get that finds A's entry returns it; List      *)
(* returns A's matching rows; no response and no loaded row belongs to      *)
(* another user.                                                            *)
C4_CrossUserIsolation ==
    [][\A p \in Procs :
          LET r == req[p]
              a == req'[p]
              own == Owned(entries, r.uid)
          IN (r.pc = "handler" /\ a.pc # "handler"
                 /\ r.op \in {"get", "update", "delete", "list"})
                => /\ a.status # 403
                   /\ \A i \in 1..Len(a.resp) : a.resp[i].user_id = r.uid
                   /\ a.found.user_id \in {0, r.uid}
                   /\ (r.op # "list" /\ OwnedOn(own, r.uid, r.date) = {})
                         => (a.pc = "done" /\ a.status = 404)
                   /\ (r.op # "list" /\ OwnedOn(own, r.uid, r.date) # {})
                         => /\ a.status # 404
                            /\ r.op = "get" => a.resp = <<SelectEntry(own, r.uid, r.date)>>
                            /\ r.op # "get" => a.found = SelectEntry(own, r.uid, r.date)
                   /\ r.op = "list"
                         => a.resp = OrderByDateDesc(ListMatches(own, r.uid, r.flt))]_vars

(* C4 witness: a Get of user A for a date on which A has no entry and       *)
(* another user has one ended 404.                                          *)
C4_Witness ==
    \E p \in Procs :
        /\ req[p].op = "get" /\ req[p].pc = "done" /\ req[p].status = 404
        /\ get_user_by_id(users, req[p].uid) # {}
        /\ OwnedOn(entries, req[p].uid, req[p].date) = {}
        /\ \E e \in entries : e.date = req[p].date /\ e.user_id # req[p].uid

(* C6: the commit of a successful Update that supplied only score leaves    *)
(* the entry's summary as it was, one that supplied only summary leaves its *)
(* score as it was; in both cases id, owner and date are as they were, and  *)
(* the response is the stored row.                                          *)
C6_PartialUpdate ==
    [][\A p \in Procs :
          LET r == req[p]
              old == SelectEntry(entries, r.uid, r.date)
              new == SelectEntry(entries', r.uid, r.date)
          IN (/\ r.op = "update" /\ r.pc = "commit" /\ req'[p].pc = "done"
              /\ IsNone(r.score) # IsNone(r.summary))
                => /\ old # NoRow /\ new # NoRow
                   /\ req'[p].status = 200 /\ req'[p].resp = <<new>>
                   /\ IsNone(r.summary) => new.summary = old.summary
                   /\ IsNone(r.score) => new.score = old.score
                   /\ new.id = old.id /\ new.user_id = old.user_id /\ new.date = old.date
                   /\ Cardinality(entries') = Cardinality(entries)]_vars

(* C6 witness: an Update that supplied a new score and no summary has       *)
(* written its row and is about to commit.                                  *)
C6_Witness ==
    \E p \in Procs :
        /\ req[p].op = "update" /\ req[p].pc = "commit" /\ wlock = p
        /\ IsNone(req[p].summary) /\ ~IsNone(req[p].score)
        /\ Val(req[p].score) # req[p].found.score

(* C8: for a (user, date) with no entry the interactive delete ends 200 and *)
(* the strict delete ends 404, both leaving the store as it was; for a      *)
(* (user, date) with an entry both (200 and 204) remove that entry and      *)
(* nothing else.                                                            *)
C8_DeleteAsymmetry ==
    [][\A p \in Procs :
          LET r == req[p]
              a == req'[p]
              had == OwnedOn(entries, r.uid, r.date)
          IN /\ (r.op = "delete" /\ r.pc = "handler" /\ a.pc # "handler")
                   => IF had = {} THEN a.pc = "done" /\ a.status = 404 /\ entries' = entries
                      ELSE a.pc = "commit" /\ a.status = 204
             /\ (r.op = "delete_day" /\ r.pc = "handler" /\ a.pc # "handler")
                   => a.pc = "commit" /\ a.status = 200
             /\ (r.op \in {"delete", "delete_day"} /\ r.pc = "commit" /\ a.pc = "done")
                   => /\ entries' = entries \ had
                      /\ users' = users
                      /\ a.status = r.status
                      /\ r.op = "delete" => had # {}]_vars

(* C8 witness: an interactive delete for a (user, date) with no entry, the  *)
(* store holding other entries, is about to commit.                         *)
C8_Witness ==
    \E p \in Procs :
        /\ req[p].op = "delete_day" /\ req[p].pc = "commit"
        /\ req[p].found = NoRow
        /\ OwnedOn(entries, req[p].uid, req[p].date) = {}
        /\ entries # {}

(* C10 as stated: a token issued for user u at instant t verifies to u's    *)
(* id at every instant before t + ttl and is invalid at every instant       *)
(* after t + ttl, with a signature that does not match, or malformed.       *)
C10_InvalidAfterTtl ==
    /\ jwt_decode(Malformed, now) = 0
    /\ \A i \in issued :
          /\ now < i.at + TtlTicks => jwt_decode(i.tok, now) = i.uid
          /\ now > i.at + TtlTicks => jwt_decode(i.tok, now) = 0
          /\ jwt_decode([i.tok EXCEPT !.sig = "bad"], now) = 0

(* C10 amended: a token issued for user u at instant t verifies to u's id   *)
(* at every instant before t + ttl, and is invalid (401, no user resolved)  *)
(* at every instant after the whole second in which t + ttl falls, with a   *)
(* signature that does not match, or malformed; the access layer resolves   *)
(* it to u or to nobody, and to nobody whenever verification fails.         *)
C10_InvalidAfterExpirySecond ==
    /\ jwt_decode(Malformed, now) = 0
    /\ get_current_user(Malformed, now, users) = 0
    /\ \A i \in issued :
          /\ i.uid # 0
          /\ now < i.at + TtlTicks => jwt_decode(i.tok, now) = i.uid
          /\ Seconds(now) > Seconds(i.at + TtlTicks) => jwt_decode(i.tok, now) = 0
          /\ jwt_decode([i.tok EXCEPT !.sig = "bad"], now) = 0
          /\ get_current_user([i.tok EXCEPT !.sig = "bad"], now, users) = 0
          /\ get_current_user(i.tok, now, users) \in {0, i.uid}
          /\ jwt_decode(i.tok, now) = 0 => get_current_user(i.tok, now, users) = 0

(* C10 witness: a token whose user still has the account is past the second *)
(* of its expiry, and a request for the current user has been refused 401.  *)
C10_Witness ==
    /\ \E i \in issued :
          /\ Seconds(now) > Seconds(i.at + TtlTicks)
          /\ get_user_by_id(users, i.uid) # {}
    /\ \E p \in Procs : req[p].op = "get_me" /\ req[p].pc = "done" /\ req[p].status = 401

(* C11 as stated: a Get of (u, d) that runs right after a Create of (u, d)  *)
(* was answered 201 returns the score and the summary exactly as they were  *)
(* submitted.                                                               *)
C11_GetReturnsSubmitted ==
    [][\A p \in Procs, q \in Procs :
          (/\ req[p].op = "create" /\ req[p].pc = "done" /\ req[p].status = 201
           /\ req[q].op = "get" /\ req[q].pc = "handler" /\ req'[q].pc = "done"
           /\ req[q].uid = req[p].uid /\ req[q].date = req[p].date)
             => /\ req'[q].status = 200
                /\ req'[q].resp[1].score = Val(req[p].sent.score)
                /\ req'[q].resp[1].summary = Val(req[p].sent.summary)]_vars

(* C11 amended: a Get of (u, d) that runs right after a Create of (u, d)    *)
(* was answered 201 returns the submitted score and the submitted summary   *)
(* without its leading and trailing whitespace, which is also what the      *)
(* Create answered.                                                         *)
C11_GetReturnsStripped ==
    [][\A p \in Procs, q \in Procs :
          (/\ req[p].op = "create" /\ req[p].pc = "done" /\ req[p].status = 201
           /\ req[q].op = "get" /\ req[q].pc = "handler" /\ req'[q].pc = "done"
           /\ req[q].uid = req[p].uid /\ req[q].date = req[p].date)
             => /\ req'[q].status = 200
                /\ req'[q].resp[1].score = Val(req[p].sent.score)
                /\ req'[q].resp[1].summary = Strip(Val(req[p].sent.summary))
                /\ req'[q].resp = req[p].resp]_vars

(* C11 witness: a Create with a whitespace-padded summary was answered 201  *)
(* and the Get of the same (user, date) returned an entry.                  *)
C11_Witness ==
    \E p \in Procs, q \in Procs :
        /\ req[p].op = "create" /\ req[p].pc = "done" /\ req[p].status = 201
        /\ Val(req[p].sent.summary) = <<" ", "a", " ">>
        /\ req[q].op = "get" /\ req[q].pc = "done" /\ req[q].status = 200
        /\ req[q].uid = req[p].uid /\ req[q].date = req[p].date

(* C12: List answers 200 with exactly the caller's entries whose date lies  *)
(* in [start_date, end_date] and whose score lies in [min_score, max_score] *)
(* (each bound inclusive; an absent bound does not restrict; a bound of 0   *)
(* is a bound), each once, in strictly descending order of date, and its    *)
(* count is the number of entries it returns.                               *)
C12_ListFiltersAndOrder ==
    [][\A p \in Procs :
          LET r == req[p]
              a == req'[p]
              f == r.flt
              want == {e \in entries :
                         /\ e.user_id = r.uid
                         /\ f.start_date # None => e.date >= f.start_date[1]
                         /\ f.end_date # None => e.date <= f.end_date[1]
                         /\ f.min_score # None => e.score >= f.min_score[1]
                         /\ f.max_score # None => e.score <= f.max_score[1]}
          IN (r.op = "list" /\ r.pc = "handler" /\ a.pc = "done")
                => /\ a.status = 200
                   /\ {a.resp[i] : i \in 1..Len(a.resp)} = want
                   /\ Len(a.resp) = Cardinality(want)
                   /\ \A i \in 1..Len(a.resp), j \in 1..Len(a.resp) :
                         i < j => a.resp[i].date > a.resp[j].date
                   /\ Total(a.resp) = Cardinality(want)]_vars

(* C12 witness: a List was answered with one entry, the caller's entry of   *)
(* score 0, while the caller has another entry, of score 10, which the      *)
(* bounds kept out.                                                         *)
C12_Witness ==
    \E p \in Procs :
        /\ req[p].op = "list" /\ req[p].pc = "done" /\ req[p].status = 200
        /\ Len(req[p].resp) = 1
        /\ req[p].resp[1].score = ScoreMin
        /\ \E e \in Owned(entries, req[p].uid) : e.score = ScoreMax

(* C13: a registration (API or form) for an email that a stored user has,  *)
(* letter for letter, ends 400 at the lookup and stores nothing; only an    *)
(* email no stored user has gets as far as the INSERT, and the INSERT adds  *)
(* a user only if the email is still free; so no two stored users, and no   *)
(* two users of an open transaction, share an email.                        *)
C13_RegisterConflict ==
    [][\A p \in Procs :
          LET r == req[p]
              a == req'[p]
              taken(email) == \E u \in users : u.email = email
          IN /\ \A rows \in {users', pend'.users} :
                   \A u1 \in rows, u2 \in rows : u1.email = u2.email => u1 = u2
             /\ (r.pc \in {"idle", "done"} /\ a # r /\ a.op \in {"register", "register_submit"})
                   => /\ users' = users /\ pend' = pend
                      /\ a.pc = "done" => a.status = 400
                      /\ a.pc # "done" => a.pc = "flush" /\ ~taken(a.email)
             /\ (r.op \in {"register", "register_submit"} /\ r.pc = "flush" /\ a # r)
                   => IF taken(r.email)
                      THEN a.pc = "done" /\ a.status # 201 /\ a.status # 302 /\ pend' = pend
                      ELSE pend'.users = users \cup {[id |-> a.uid, email |-> r.email]}]_vars

(* C13 witness: a registration was refused 400 while two users whose emails *)
(* differ in case only are stored.                                          *)
C13_Witness ==
    /\ \E p \in Procs :
          req[p].op \in {"register", "register_submit"} /\ req[p].pc = "done" /\ req[p].status = 400
    /\ \E u1 \in users, u2 \in users : u1.email = "a@x" /\ u2.email = "A@x"

(* The user an issued token's text verifies to, 0 for any other text and   *)
(* for a token whose user is gone.                                          *)
Verifies(text) ==
    LET hit == {i \in issued : /\ text = <<JwtText(i.tok)>>
                               /\ jwt_decode(i.tok, now) # 0
                               /\ \E u \in users : u.id = i.tok.sub}
    IN IF hit = {} THEN 0 ELSE (CHOOSE i \in hit : TRUE).tok.sub

(* C14: when a request carries a non-empty access_token cookie, the user    *)
(* resolved is the one the cookie's text, less a leading "Bearer ",         *)
(* verifies to, whatever the Authorization header holds; with no cookie or  *)
(* an empty one it is the one the header's bearer token verifies to; and    *)
(* when that is nobody, strict mode answers 401 while optional mode goes on *)
(* without a user (the login page is rendered, 200).                        *)
C14_CookiePreferred ==
    [][\A p \in Procs :
          LET r == req[p]
              a == req'[p]
              c == r.cookie
              h == r.header
              fromCookie == c # <<>> /\ c[1] # <<>>
              cookieText == IF Len(c[1]) >= 7 /\ SubSeq(c[1], 1, 7) = Bearer
                            THEN SubSeq(c[1], 8, Len(c[1])) ELSE c[1]
              headerText == IF /\ h # <<>>
                               /\ Len(h[1]) >= 7
                               /\ SubSeq(h[1], 1, 7) \in {Bearer, <<"b", "e", "a", "r", "e", "r", " ">>}
                            THEN SubSeq(h[1], 8, Len(h[1])) ELSE <<>>
              who == IF fromCookie THEN Verifies(cookieText) ELSE Verifies(headerText)
          IN (r.pc = "received" /\ a.pc = "done")
                => /\ a.uid = who
                   /\ r.op = "get_me" => a.status = (IF who = 0 THEN 401 ELSE 200)
                   /\ r.op = "login_page" => a.status = (IF who = 0 THEN 200 ELSE 302)]_vars

(* C14 witness: a strict request whose cookie holds junk after "Bearer "    *)
(* and whose header holds the valid token of a stored user was answered 401.*)
C14_Witness ==
    \E p \in Procs, i \in issued :
        /\ req[p].op = "get_me" /\ req[p].pc = "done" /\ req[p].status = 401
        /\ req[p].cookie = Some(Bearer \o <<"junk">>)
        /\ req[p].header = Some(Bearer \o <<JwtText(i.tok)>>)
        /\ get_user_by_id(users, i.tok.sub) # {}

(* The Sunday-based weekday index of the 1st of a month, by Zeller's        *)
(* congruence (January and February count as months 13 and 14 of the year   *)
(* before; the congruence gives 0 for Saturday).                            *)
SundayIndexOfFirst(year, month) ==
    LET m == IF month < 3 THEN month + 12 ELSE month
        y == IF month < 3 THEN year - 1 ELSE year
        K == y % 100
        J == y \div 100
        h == (1 + ((13 * (m + 1)) \div 5) + K + (K \div 4) + (J \div 4) + 5 * J) % 7
    IN (h + 6) % 7

(* The score categories, for the scores 0 to 10 in turn. *)
ScoreCategories == <<"score-0", "score-1", "score-2", "score-3", "score-4", "score-5",
                     "score-6", "score-7", "score-8", "score-9", "score-10">>

(* C15: the grid get_calendar_data returns for a year and a month 1..12 is  *)
(* ceil((k + N) / 7) weeks of exactly 7 slots each, k being the             *)
(* Sunday-based weekday index of the 1st and N the number of days of the    *)
(* month: read in order, k empty slots, then the days 1..N each once and    *)
(* increasing, then empty slots only; and the score category of each day's  *)
(* slot is that of its entry's score, or "score-none" with no entry for     *)
(* that date.                                                               *)
C15_CalendarGrid ==
    \A p \in Procs :
        (req[p].op = "calendar_data" /\ req[p].pc = "done")
          => LET c == req[p].cal
                 w == req[p].resp
                 k == SundayIndexOfFirst(c.year, c.month)
                 N == days_in_month(c.year, c.month)
                 slot(j) == w[((j - 1) \div 7) + 1][((j - 1) % 7) + 1]
             IN /\ Len(w) = (k + N + 6) \div 7
                /\ \A i \in 1..Len(w) : Len(w[i]) = 7
                /\ \A j \in 1..(7 * Len(w)) :
                      IF j <= k \/ j > k + N
                      THEN slot(j) = NoDay
                      ELSE LET d == Date(c.year, c.month, j - k)
                           IN /\ slot(j).day = j - k
                              /\ slot(j).date = d
                              /\ slot(j).score_class =
                                    IF d \in DOMAIN c.entries
                                    THEN ScoreCategories[c.entries[d].score + 1]
                                    ELSE "score-none"

(* C15 witness: the grid of November 2023, 30 days from a Wednesday, with   *)
(* an entry on the 1st: 5 weeks, the 1st in the fourth slot.                *)
C15_Witness ==
    \E p \in Procs :
        /\ req[p].op = "calendar_data" /\ req[p].pc = "done"
        /\ req[p].cal.year = 2023 /\ req[p].cal.month = 11
        /\ Date(2023, 11, 1) \in DOMAIN req[p].cal.entries
        /\ Len(req[p].resp) = 5
        /\ req[p].resp[1][3] = NoDay
        /\ req[p].resp[1][4].day = 1
        /\ req[p].resp[1][4].score_class # "score-none"

(* C16: an issued token that resolves to no user (its user's account was   *)
(* deleted, or it expired) resolves to no user ever after, in strict and in *)
(* optional mode, whatever accounts are registered later.                   *)
C16_DeletedUsersTokenStaysDead ==
    [][\A i \in issued :
          (get_current_user(i.tok, now, users) = 0
              => get_current_user(i.tok, now', users') = 0)
          /\ (get_current_user_optional(i.tok, now, users) = 0
              => get_current_user_optional(i.tok, now', users') = 0)]_vars

(* C17: every step of a Create, Update, Upsert, strict or interactive       *)
(* Delete or Delete-account made with resolved user A leaves the entries of *)
(* every other user and every other user's record as they were (none        *)
(* removed, changed or added); a step of an operation on (A, d) also leaves *)
(* A's entries on the dates other than d as they were.                      *)
C17_OthersUntouched ==
    [][\A p \in Procs :
          LET r == req[p]
              foreign(rows) == {e \in rows : e.user_id # r.uid}
              elsewhere(rows) == {e \in rows : e.user_id = r.uid /\ e.date # r.date}
          IN (/\ req'[p] # r
              /\ r.pc \notin {"idle", "done"}
              /\ r.op \in {"create", "update", "upsert", "delete", "delete_day"} \cup AccountOps)
                => /\ foreign(entries') = foreign(entries)
                   /\ {u \in users' : u.id # r.uid} = {u \in users : u.id # r.uid}
                   /\ r.op \notin AccountOps
                         => /\ elsewhere(entries') = elsewhere(entries)
                            /\ users' = users]_vars

====
